---- MODULE Spec2Model ----
(***************************************************************************)
(* Model of the braintree-commercetools connector's extension handlers:    *)
(* the payment operations of service/payment.service.ts, the customer      *)
(* update handler of controllers/customer.controller.ts and the update     *)
(* action builders of utils/response.utils.ts.                             *)
(*                                                                         *)
(* The handlers are stateless: the state is the resource held by the       *)
(* commerce platform (a payment with its transactions, or a customer), the *)
(* result of the last handler invocation, and the log of gateway calls.    *)
(* Spec models the payment handlers and the platform applying the returned *)
(* update actions; CustomerSpec models the customer update handler.        *)
(***************************************************************************)
EXTENDS Integers, Sequences, FiniteSets, TLC

VARIABLES
  payment,      \* the payment resource as the platform holds it
  customer,     \* the customer resource as the platform holds it
  pc,           \* "idle" | "returned" | "threw": where the last invocation ended
  last,         \* the last invocation: operation, arguments and result
  gatewayLog,   \* every gateway call made so far, oldest first
  handled       \* operations whose non-empty result the platform has applied

vars == <<payment, customer, pc, last, gatewayLog, handled>>

(***************************************************************************)
(* Bounds of the model.                                                    *)
(***************************************************************************)
MaxTransactions == 1   \* transactions a payment starts with
MaxGatewayCalls == 2   \* gateway calls in one behaviour

(***************************************************************************)
(* JavaScript values.  Strings are TLA+ strings; undefined and null are    *)
(* two reserved strings that no payload or identifier equals.              *)
(***************************************************************************)
Undefined == "<undefined>"
Null == "<null>"

\* JavaScript truthiness of a string-or-absent value: !!v
Truthy(v) == v \notin {Undefined, Null, ""}

\* a ?? b
Coalesce(a, b) == IF a \in {Undefined, Null} THEN b ELSE a

\* o[k] of an object modelled as a function from property names
Get(o, k) == IF k \in DOMAIN o THEN o[k] ELSE Undefined

\* {...o, [k]: v} restricted to one property
Put(o, k, v) == [x \in (DOMAIN o) \cup {k} |-> IF x = k THEN v ELSE o[x]]

EmptyObject == [x \in {} |-> Undefined]

\* thrown values: an Error carries a message, any other thrown value does not
Error(msg) == [isError |-> TRUE, message |-> msg]
NonError == [isError |-> FALSE, message |-> Undefined]

\* JSON.stringify: an injective rendering of the value
JSONStringify(v) == ToString(v)

(***************************************************************************)
(* Request payloads a custom field can hold, and JSON.parse on them.       *)
(***************************************************************************)
PObjTransactionId == "{\"transactionId\":\"bt1\"}"
PObjAmount == "{\"amount\":\"5.00\"}"
PObjNonce == "{\"paymentMethodNonce\":\"n1\",\"customerId\":\"c9\"}"
PPlain == "bt2"
PDigits == "12345678"
PNull == "null"

Payloads == {PObjTransactionId, PObjAmount, PObjNonce, PPlain, PDigits, PNull}

\* JSON.parse(text): [ok, t, o] with t the typeof-like kind of the value and o
\* its properties, or [ok |-> FALSE, error] when a SyntaxError is thrown
JSONParse(text) ==
  CASE text = PObjTransactionId ->
         [ok |-> TRUE, t |-> "object", o |-> [transactionId |-> "bt1"]]
    [] text = PObjAmount ->
         [ok |-> TRUE, t |-> "object", o |-> [amount |-> "5.00"]]
    [] text = PObjNonce ->
         [ok |-> TRUE, t |-> "object",
          o |-> [paymentMethodNonce |-> "n1", customerId |-> "c9"]]
    [] text = PDigits ->
         [ok |-> TRUE, t |-> "number", o |-> EmptyObject]
    [] text = PNull ->
         [ok |-> TRUE, t |-> "null", o |-> EmptyObject]
    [] OTHER ->
         [ok |-> FALSE,
          error |-> Error("Unexpected token in JSON at position 0")]

(***************************************************************************)
(* utils/response.utils.ts                                                 *)
(***************************************************************************)
\* removeEmptyProperties: every null property is deleted (the nested objects
\* of the model hold no null and are not empty, so they are kept as they are)
removeEmptyProperties(o) ==
  [k \in {x \in DOMAIN o : ToString(o[x]) # ToString(Null)} |-> o[k]]

\* stringifyData: the requests and responses of the model are objects
stringifyData(data) == JSONStringify(data)

\* handleRequest: one addInterfaceInteraction carrying the request
handleRequest(requestName, request) ==
  << [action |-> "addInterfaceInteraction",
      type |-> requestName \o "Request",
      data |-> stringifyData(removeEmptyProperties(request))] >>

\* the set-field action both handleResponse and handleError build
fieldAction(transactionId, name, value) ==
  [action |-> IF Truthy(transactionId) THEN "setTransactionCustomField"
              ELSE "setCustomField",
   transactionId |-> transactionId,
   name |-> name,
   value |-> value]

\* mutant: the response interaction is pushed before the response field
handleResponseInteractionFirst(requestName, response, transactionId, addInterfaceInteraction) ==
  LET data == stringifyData(removeEmptyProperties(response))
  IN (IF addInterfaceInteraction
      THEN << [action |-> "addInterfaceInteraction",
               type |-> requestName \o "Response",
               data |-> data] >>
      ELSE << >>)
     \o << fieldAction(transactionId, requestName \o "Response", data) >>
     \o << fieldAction(transactionId, requestName \o "Request", Null) >>

handleResponse(requestName, response, transactionId, addInterfaceInteraction) ==
  LET data == stringifyData(removeEmptyProperties(response))
  IN << fieldAction(transactionId, requestName \o "Response", data) >>
     \o (IF addInterfaceInteraction
         THEN << [action |-> "addInterfaceInteraction",
                  type |-> requestName \o "Response",
                  data |-> data] >>
         ELSE << >>)
     \o << fieldAction(transactionId, requestName \o "Request", Null) >>

\* handlePaymentResponse is imported from response.utils but is not among the
\* sources; it builds the response actions as handleResponse does
handlePaymentResponse(requestName, response, transactionId) ==
  handleResponse(requestName, response, transactionId, TRUE)

\* handleCustomerResponse is imported from response.utils but is not among
\* the sources; it sets the response field and clears the request field
handleCustomerResponse(requestName, response, cust) ==
  handleResponse(requestName, response, Undefined, FALSE)

\* mutant: the error message of a thrown Error is not read
handleErrorUnknown(requestName, error, transactionId) ==
  << fieldAction(transactionId, requestName \o "Response",
                 JSONStringify([success |-> FALSE, message |-> "Unknown error"])),
     fieldAction(transactionId, requestName \o "Request", Null) >>

handleError(requestName, error, transactionId) ==
  LET errorMessage == IF error.isError /\ error.message # Undefined
                      THEN error.message ELSE "Unknown error"
  IN << fieldAction(transactionId, requestName \o "Response",
                    JSONStringify([success |-> FALSE, message |-> errorMessage])),
        fieldAction(transactionId, requestName \o "Request", Null) >>

(***************************************************************************)
(* The resources and the gateway.                                          *)
(***************************************************************************)
RequestFields == {"refundRequest", "submitForSettlementRequest", "voidRequest",
                  "transactionSaleRequest", "getClientTokenRequest"}

\* the request fields a transaction's custom fields can carry
TransactionRequestFields == {"refundRequest", "submitForSettlementRequest", "voidRequest"}

NoFields == [f \in RequestFields |-> Undefined]

NoTransaction == [present |-> FALSE]
NoAmount == [present |-> FALSE]
AmountPlanned == [present |-> TRUE, centAmount |-> 1000, fractionDigits |-> 2,
                  currencyCode |-> "EUR"]

\* the platform's identifier of the i-th transaction of a payment, and the
\* gateway identifier recorded on it
TransactionIdOf(i) == "t" \o ToString(i)
InteractionIdOf(i) == "i" \o ToString(i)

\* what the gateway answers: a transaction, or a thrown value
GatewayResponses ==
  { [id |-> "g1", status |-> "authorized", amount |-> "10.00", updatedAt |-> "d1",
     paymentInstrumentType |-> "credit_card",
     creditCard |-> [cardType |-> "Visa", maskedNumber |-> "41**11"]],
    [id |-> "g2", status |-> "settled", amount |-> "5.00", updatedAt |-> "d2",
     paymentInstrumentType |-> "paypal_account"] }

GatewayErrors == {Error("gateway declined"), NonError}

GatewayOutcomes ==
  {[ok |-> TRUE, response |-> r] : r \in GatewayResponses}
  \cup {[ok |-> FALSE, error |-> e] : e \in GatewayErrors}

ClientTokenOutcomes ==
  {[ok |-> TRUE, response |-> [clientToken |-> "tok1"]]}
  \cup {[ok |-> FALSE, error |-> e] : e \in GatewayErrors}

\* process.env of the deployment
BRAINTREE_MERCHANT_ACCOUNT == "merchantA"
BRAINTREE_AUTOCAPTURE == "true"
CHANNEL_COMMERCETOOLS == "commercetools"

\* what a handler invocation yields: the returned update actions or a thrown
\* value, and the gateway calls it made
Returned(actions, calls) ==
  [threw |-> FALSE, actions |-> actions, calls |-> calls]
Threw(error, calls) ==
  [threw |-> TRUE, error |-> error, actions |-> << >>, calls |-> calls]

(***************************************************************************)
(* utils/map.utils.ts is not among the sources: its results are kept       *)
(* symbolic.                                                               *)
(***************************************************************************)
mapBraintreeMoneyToCommercetoolsMoney(amount, fractionDigits) ==
  [braintreeAmount |-> amount, fractionDigits |-> fractionDigits]
mapBraintreeStatusToCommercetoolsTransactionState(status) ==
  "state(" \o status \o ")"
mapBraintreeStatusToCommercetoolsTransactionType(status) ==
  "type(" \o status \o ")"

(***************************************************************************)
(* service/payment.service.ts                                              *)
(***************************************************************************)
findSuitableTransactionId(paymentWithOptionalTransaction, type) ==
  IF paymentWithOptionalTransaction.transaction.present
  THEN [ok |-> TRUE, id |-> paymentWithOptionalTransaction.transaction.interactionId]
  ELSE LET all == paymentWithOptionalTransaction.payment.transactions
           transactions == SelectSeq(all, LAMBDA transaction : transaction.type = type)
       IN IF Len(transactions) = 0
          THEN [ok |-> FALSE, error |-> Error("The payment has no suitable transaction")]
          ELSE [ok |-> TRUE, id |-> transactions[Len(transactions)].interactionId]

\* parseRequest: [ok |-> TRUE, request] or [ok |-> FALSE, error] when it throws.
\* The module is strict-mode code: reading a property of null and creating a
\* property on a primitive both throw a TypeError.
parseRequest(paymentWithOptionalTransaction, requestField, transactionType) ==
  LET transaction == paymentWithOptionalTransaction.transaction
      requestJSON ==
        Coalesce(paymentWithOptionalTransaction.payment.custom[requestField],
                 Coalesce(IF transaction.present
                          THEN Get(transaction.custom, requestField)
                          ELSE Undefined,
                          Null))
      parsed == JSONParse(requestJSON)
      t == IF parsed.ok THEN parsed.t ELSE "object"
      request == IF parsed.ok THEN parsed.o ELSE [transactionId |-> requestJSON]
      found == findSuitableTransactionId(paymentWithOptionalTransaction, transactionType)
  IN IF ~Truthy(requestJSON)
     THEN [ok |-> FALSE, error |-> Error(requestField \o " is missing")]
     ELSE IF t = "null"
     THEN [ok |-> FALSE,
           error |-> Error("Cannot read properties of null (reading 'transactionId')")]
     ELSE IF Get(request, "transactionId") \in {Undefined, Null} /\ ~found.ok
     THEN [ok |-> FALSE, error |-> found.error]
     ELSE IF t # "object"
     THEN [ok |-> FALSE,
           error |-> Error("Cannot create property 'transactionId' on " \o t)]
     ELSE [ok |-> TRUE,
           request |-> Put(request, "transactionId",
                           IF Get(request, "transactionId") \in {Undefined, Null}
                           THEN found.id
                           ELSE request.transactionId)]

getPaymentMethodHint(response) ==
  CASE response.paymentInstrumentType = "credit_card" ->
         response.creditCard.cardType \o " " \o response.creditCard.maskedNumber
    [] response.paymentInstrumentType = "paypal_account" ->
         IF "paypalAccount" \in DOMAIN response
         THEN response.paypalAccount.payerEmail ELSE ""
    [] OTHER -> ""

updatePaymentFields(response) ==
  LET paymentMethodHint == getPaymentMethodHint(response)
  IN << [action |-> "setStatusInterfaceCode", interfaceCode |-> response.status],
        [action |-> "setStatusInterfaceText", interfaceText |-> response.status],
        [action |-> "setMethodInfoMethod",
         method |-> response.paymentInstrumentType \o
                    (IF paymentMethodHint # ""
                     THEN " (" \o paymentMethodHint \o ")" ELSE "")] >>

\* the addTransaction action every operation pushes after the response actions
addTransaction(type, response, amountPlanned) ==
  [action |-> "addTransaction",
   transaction |->
     [type |-> type,
      amount |->
        [centAmount |->
           mapBraintreeMoneyToCommercetoolsMoney(
             response.amount,
             IF amountPlanned.present THEN amountPlanned.fractionDigits
             ELSE Undefined),
         currencyCode |->
           IF amountPlanned.present THEN amountPlanned.currencyCode ELSE Undefined],
      interactionId |-> response.id,
      timestamp |-> response.updatedAt,
      state |-> mapBraintreeStatusToCommercetoolsTransactionState(response.status)]]

\* mutant: the transaction's gateway id is passed in place of its id
SuppliedTransactionInteractionId(paymentWithOptionalTransaction) ==
  IF paymentWithOptionalTransaction.transaction.present
  THEN paymentWithOptionalTransaction.transaction.interactionId
  ELSE Undefined

\* transaction?.id of the supplied transaction
SuppliedTransactionId(paymentWithOptionalTransaction) ==
  IF paymentWithOptionalTransaction.transaction.present
  THEN paymentWithOptionalTransaction.transaction.id
  ELSE Undefined

\* the body shared by refund, submitForSettlement and voidTransaction, which
\* differ in the names passed here; gateway is the outcome of the gateway call
\* if one is made
transactionOperation(paymentWithOptionalTransaction, gateway, requestName, transactionType, gatewayFunction, passAmount, addedType) ==
  LET requestField == requestName \o "Request"
      transactionId == SuppliedTransactionId(paymentWithOptionalTransaction)
      parsed == parseRequest(paymentWithOptionalTransaction, requestField, transactionType)
      request == removeEmptyProperties(parsed.request)
      call == IF passAmount
              THEN [fn |-> gatewayFunction,
                    transactionId |-> Get(request, "transactionId"),
                    amount |-> Get(request, "amount")]
              ELSE [fn |-> gatewayFunction,
                    transactionId |-> Get(request, "transactionId")]
  IN IF ~Truthy(paymentWithOptionalTransaction.payment.custom[requestField])
     THEN Returned(<< >>, << >>)
     ELSE IF ~parsed.ok
     THEN Returned(handleError(requestName, parsed.error, transactionId), << >>)
     ELSE IF ~gateway.ok
     THEN Returned(handleError(requestName, gateway.error, transactionId), << call >>)
     ELSE Returned(
            handleRequest(requestName, request)
            \o handlePaymentResponse(requestName, gateway.response, transactionId)
            \o << addTransaction(addedType, gateway.response,
                                 paymentWithOptionalTransaction.payment.amountPlanned) >>
            \o updatePaymentFields(gateway.response),
            << call >>)

\* mutant: refund is entered when the transaction carries refundRequest too
refundOnTransactionField(paymentWithOptionalTransaction, gateway) ==
  LET transaction == paymentWithOptionalTransaction.transaction
  IN transactionOperation(
       [paymentWithOptionalTransaction EXCEPT
          !.payment.custom["refundRequest"] =
             Coalesce(@, IF transaction.present
                         THEN Get(transaction.custom, "refundRequest")
                         ELSE Undefined)],
       gateway, "refund", "Charge", "refund", TRUE, "Refund")

refund(paymentWithOptionalTransaction, gateway) ==
  transactionOperation(paymentWithOptionalTransaction, gateway,
                       "refund", "Charge", "refund", TRUE, "Refund")

submitForSettlement(paymentWithOptionalTransaction, gateway) ==
  transactionOperation(paymentWithOptionalTransaction, gateway,
                       "submitForSettlement", "Authorization", "submitForSettlement",
                       TRUE, "Charge")

voidTransaction(paymentWithOptionalTransaction, gateway) ==
  transactionOperation(paymentWithOptionalTransaction, gateway,
                       "void", "Authorization", "voidTransaction",
                       FALSE, "CancelAuthorization")

\* String(centAmount * 10^-fractionDigits), kept as the exact product
amountString(amountPlanned) ==
  ToString(amountPlanned.centAmount) \o "e-" \o ToString(amountPlanned.fractionDigits)

\* parseTransactionSaleRequest: [ok |-> TRUE, request] or [ok |-> FALSE, error]
parseTransactionSaleRequest(p) ==
  LET transactionSaleRequest == p.custom["transactionSaleRequest"]
      amountPlanned == p.amountPlanned
      parsed == JSONParse(transactionSaleRequest)
      t == IF parsed.ok THEN parsed.t ELSE "object"
      request == IF parsed.ok THEN parsed.o
                 ELSE [paymentMethodNonce |-> transactionSaleRequest]
  IN IF ~Truthy(transactionSaleRequest)
     THEN [ok |-> FALSE, error |-> Error("transactionSaleRequest is missing")]
     ELSE IF ~amountPlanned.present
     THEN [ok |-> FALSE, error |-> Error("amountPlanned is missing")]
     ELSE IF t = "null"
     THEN [ok |-> FALSE,
           error |-> Error("Cannot read properties of null (reading 'customer')")]
     ELSE [ok |-> TRUE,
           request |->
             request @@
             [amount |-> amountString(amountPlanned),
              merchantAccountId |-> BRAINTREE_MERCHANT_ACCOUNT,
              channel |-> CHANNEL_COMMERCETOOLS,
              options |->
                [submitForSettlement |-> (BRAINTREE_AUTOCAPTURE = "true"),
                 storeInVaultOnSuccess |-> Truthy(Get(request, "customerId"))]]]

\* mutant: the interfaceId is set whether or not the payment has one
interfaceIdActionAlways(p, response) ==
  << [action |-> "setInterfaceId", interfaceId |-> response.id] >>

\* the setInterfaceId action of a sale, pushed if the payment has no interfaceId
interfaceIdAction(p, response) ==
  IF ~Truthy(p.interfaceId)
  THEN << [action |-> "setInterfaceId", interfaceId |-> response.id] >>
  ELSE << >>

handleTransactionSaleRequest(p, gateway) ==
  LET parsed == parseTransactionSaleRequest(p)
      request == removeEmptyProperties(parsed.request)
      call == [fn |-> "transactionSale", request |-> request]
  IN IF ~Truthy(p.custom["transactionSaleRequest"])
     THEN Returned(<< >>, << >>)
     ELSE IF ~parsed.ok
     THEN Returned(handleError("transactionSale", parsed.error, Undefined), << >>)
     ELSE IF ~gateway.ok
     THEN Returned(handleError("transactionSale", gateway.error, Undefined), << call >>)
     ELSE Returned(
            handleRequest("transactionSale", request)
            \o handlePaymentResponse("transactionSale", gateway.response, Undefined)
            \o << addTransaction(
                    mapBraintreeStatusToCommercetoolsTransactionType(
                      gateway.response.status),
                    gateway.response, p.amountPlanned) >>
            \o interfaceIdAction(p, gateway.response)
            \o updatePaymentFields(gateway.response),
            << call >>)

\* JSON.parse is outside the try block: a SyntaxError leaves the function
handleGetClientTokenRequest(p, gateway) ==
  LET parsed == JSONParse(p.custom["getClientTokenRequest"])
      request == removeEmptyProperties(
                   parsed.o @@ [merchantAccountId |-> BRAINTREE_MERCHANT_ACCOUNT])
      call == [fn |-> "getClientToken", request |-> request]
  IN IF ~Truthy(p.custom["getClientTokenRequest"])
     THEN Returned(<< >>, << >>)
     ELSE IF ~parsed.ok
     THEN Threw(parsed.error, << >>)
     ELSE IF ~gateway.ok
     THEN Returned(handleError("getClientToken", gateway.error, Undefined), << call >>)
     ELSE Returned(
            handleRequest("getClientToken", request)
            \o handlePaymentResponse("getClientToken", gateway.response, Undefined),
            << call >>)

(***************************************************************************)
(* The platform applying update actions to the payment.  Actions on parts  *)
(* of the payment no handler reads (interface interactions, status and     *)
(* method info) leave the modelled part of the payment unchanged.          *)
(***************************************************************************)
\* a custom field set to null is removed
SetCustom(fields, name, value) ==
  Put(fields, name, IF value = Null THEN Undefined ELSE value)

ApplyAction(p, a) ==
  CASE a.action = "setCustomField" ->
         [p EXCEPT !.custom = SetCustom(@, a.name, a.value)]
    [] a.action = "setTransactionCustomField" ->
         [p EXCEPT !.transactions =
            [i \in DOMAIN @ |->
               IF @[i].id = a.transactionId
               THEN [@[i] EXCEPT !.custom = SetCustom(@, a.name, a.value)]
               ELSE @[i]]]
    [] a.action = "addTransaction" ->
         [p EXCEPT !.transactions =
            Append(@, [present |-> TRUE,
                       id |-> TransactionIdOf(Len(@) + 1),
                       type |-> a.transaction.type,
                       interactionId |-> a.transaction.interactionId,
                       custom |-> EmptyObject])]
    [] a.action = "setInterfaceId" ->
         [p EXCEPT !.interfaceId = a.interfaceId]
    [] OTHER -> p

RECURSIVE ApplyActions(_, _)
ApplyActions(p, actions) ==
  IF actions = << >> THEN p
  ELSE ApplyActions(ApplyAction(p, Head(actions)), Tail(actions))

(***************************************************************************)
(* controllers/customer.controller.ts                                      *)
(***************************************************************************)
CustomerFields == {"findRequest", "createRequest", "vaultRequest", "customerId"}

\* what a step of update that is not taken draws from the environment
Unused == [ok |-> FALSE, unused |-> TRUE]

CustomerGatewayOutcomes ==
  {[ok |-> TRUE, response |-> [id |-> "bc1"]],
   [ok |-> FALSE, error |-> Error("gateway declined")]}

\* mapCommercetoolsCustomerToBraintreeCustomerCreateRequest is imported from
\* utils/map.utils, which is not among the sources: it may return a request
\* with an id, one without, or throw; the request keeps the JSON it was given
MapOutcomes == {"id", "noId", "throws"}

mapCommercetoolsCustomerToBraintreeCustomerCreateRequest(cust, request, outcome) ==
  CASE outcome = "id" ->
         [ok |-> TRUE, request |-> [id |-> "mapped-" \o cust.id, from |-> request]]
    [] outcome = "noId" ->
         [ok |-> TRUE, request |-> [id |-> Undefined, from |-> request]]
    [] OTHER ->
         [ok |-> FALSE, error |-> Error("mapping failed")]

\* parseVaultRequest: [ok |-> TRUE, request] or [ok |-> FALSE, error]
parseVaultRequest(cust, mapOutcome) ==
  LET vaultRequest == cust.custom["vaultRequest"]
      parsed == JSONParse(vaultRequest)
      t == IF parsed.ok THEN parsed.t ELSE "object"
      request == IF parsed.ok THEN parsed.o ELSE [paymentMethodNonce |-> vaultRequest]
  IN IF Truthy(cust.custom["customerId"])
     THEN IF t = "null"
          THEN [ok |-> FALSE,
                error |-> Error("Cannot set properties of null (setting 'customerId')")]
          ELSE IF t # "object"
          THEN [ok |-> FALSE,
                error |-> Error("Cannot create property 'customerId' on " \o t)]
          ELSE [ok |-> TRUE,
                request |->
                  [options |-> [failOnDuplicatePaymentMethod |-> TRUE]]
                  @@ Put(request, "customerId", cust.custom["customerId"])]
     ELSE mapCommercetoolsCustomerToBraintreeCustomerCreateRequest(
            cust,
            IF t = "object" THEN JSONStringify(request) ELSE vaultRequest,
            mapOutcome)

\* the three steps of update; each takes the actions and calls so far.  A
\* failed step assigns handleError's pair to updateActions.
updateFind(cust, sofar, gateway) ==
  LET request == JSONParse(cust.custom["findRequest"])
      customerId == Coalesce(Get(request.o, "customerId"),
                             Coalesce(cust.custom["customerId"], cust.id))
      calls == sofar.calls \o
               << [step |-> "find", fn |-> "findCustomer", customerId |-> customerId] >>
  IN IF ~Truthy(cust.custom["findRequest"])
     THEN sofar
     ELSE IF gateway.ok
     THEN [actions |-> sofar.actions
                       \o handleCustomerResponse("find", gateway.response, cust),
           calls |-> calls]
     ELSE [actions |-> handleError("find", gateway.error, Undefined), calls |-> calls]

updateCreate(cust, sofar, mapOutcome, gateway) ==
  LET mapped == mapCommercetoolsCustomerToBraintreeCustomerCreateRequest(
                  cust, cust.custom["createRequest"], mapOutcome)
      calls == sofar.calls \o
               << [step |-> "create", fn |-> "createCustomer",
                   request |-> mapped.request] >>
  IN IF ~Truthy(cust.custom["createRequest"])
     THEN sofar
     ELSE IF ~mapped.ok
     THEN [actions |-> handleError("create", mapped.error, Undefined),
           calls |-> sofar.calls]
     ELSE IF ~Truthy(mapped.request.id)
     THEN [actions |-> handleError("create", Error("field customerId is missing"),
                                   Undefined),
           calls |-> sofar.calls]
     ELSE IF gateway.ok
     THEN [actions |-> sofar.actions
                       \o handleCustomerResponse("create", gateway.response, cust),
           calls |-> calls]
     ELSE [actions |-> handleError("create", gateway.error, Undefined), calls |-> calls]

updateVault(cust, sofar, mapOutcome, gateway) ==
  LET parsed == parseVaultRequest(cust, mapOutcome)
      calls == sofar.calls \o
               << [step |-> "vault",
                   fn |-> IF ~Truthy(cust.custom["customerId"])
                          THEN "createCustomer" ELSE "createPaymentMethod",
                   request |-> parsed.request] >>
  IN IF ~Truthy(cust.custom["vaultRequest"])
     THEN sofar
     ELSE IF ~parsed.ok
     THEN [actions |-> handleError("vault", parsed.error, Undefined),
           calls |-> sofar.calls]
     ELSE IF gateway.ok
     THEN [actions |-> sofar.actions
                       \o handleCustomerResponse("vault", gateway.response, cust),
           calls |-> calls]
     ELSE [actions |-> handleError("vault", gateway.error, Undefined), calls |-> calls]

\* update: the handler of the customer Update action.  An exception outside
\* the three inner try blocks reaches the outer catch, which throws a
\* CustomError in its place.
update(hasObj, cust, env) ==
  IF ~hasObj
  THEN Threw(Error("Internal server error on CustomerController: customer obj is missing"),
             << >>)
  ELSE IF Truthy(cust.custom["findRequest"]) /\ ~JSONParse(cust.custom["findRequest"]).ok
  THEN Threw(Error("Internal server error on CustomerController: SyntaxError"), << >>)
  ELSE LET afterFind == updateFind(cust, [actions |-> << >>, calls |-> << >>], env.find)
           afterCreate == updateCreate(cust, afterFind, env.createMap, env.create)
           afterVault == updateVault(cust, afterCreate, env.vaultMap, env.vault)
       IN Returned(afterVault.actions, afterVault.calls)

(***************************************************************************)
(* The payment handlers as a state machine.                                *)
(***************************************************************************)
\* custom fields with at most one request field present (possibly empty)
InitialFields ==
  {NoFields}
  \cup {[NoFields EXCEPT ![f] = v] : f \in RequestFields, v \in Payloads \cup {""}}

\* custom fields of a transaction: none, or a request in each of its fields
InitialTransactionFields ==
  {EmptyObject, [f \in TransactionRequestFields |-> PObjTransactionId]}

TransactionTypes == {"Charge", "Authorization"}

InitialTransactions ==
  UNION {
    {[i \in 1..n |-> [present |-> TRUE,
                      id |-> TransactionIdOf(i),
                      type |-> types[i],
                      interactionId |-> InteractionIdOf(i),
                      custom |-> customs[i]]] :
       types \in [1..n -> TransactionTypes],
       customs \in [1..n -> InitialTransactionFields]}
    : n \in 0..MaxTransactions}

\* (the platform never stores a payment without amountPlanned)
InitialPayments ==
  [custom : InitialFields,
   transactions : InitialTransactions,
   interfaceId : {Undefined, "if1"},
   amountPlanned : {AmountPlanned}]

NoCustomer == [id |-> "cu1", custom |-> EmptyObject]
NoInvocation == [op |-> "none"]

\* the transaction a caller can pass beside the payment: none, one of the
\* payment's transactions, or a transaction that has no id yet
SuppliedTransactions(p) ==
  {NoTransaction}
  \cup {p.transactions[i] : i \in DOMAIN p.transactions}
  \cup {[present |-> TRUE, id |-> Undefined, type |-> "Charge",
         interactionId |-> "i0", custom |-> EmptyObject]}

Init ==
  /\ payment \in InitialPayments
  /\ customer = NoCustomer
  /\ pc = "idle"
  /\ last = NoInvocation
  /\ gatewayLog = << >>
  /\ handled = {}

\* a handler was invoked and ended with result
Finish(op, transaction, gateway, result) ==
  /\ last' = [op |-> op, payment |-> payment, transaction |-> transaction,
              gateway |-> gateway, result |-> result]
  /\ pc' = IF result.threw THEN "threw" ELSE "returned"
  /\ gatewayLog' = gatewayLog \o result.calls
  /\ UNCHANGED <<payment, customer, handled>>

CanInvoke == pc = "idle" /\ Len(gatewayLog) < MaxGatewayCalls

Refund ==
  /\ CanInvoke
  /\ \E transaction \in SuppliedTransactions(payment), gateway \in GatewayOutcomes :
       Finish("refund", transaction, gateway,
              refund([payment |-> payment, transaction |-> transaction], gateway))

SubmitForSettlement ==
  /\ CanInvoke
  /\ \E transaction \in SuppliedTransactions(payment), gateway \in GatewayOutcomes :
       Finish("submitForSettlement", transaction, gateway,
              submitForSettlement([payment |-> payment, transaction |-> transaction],
                                  gateway))

VoidTransaction ==
  /\ CanInvoke
  /\ \E transaction \in SuppliedTransactions(payment), gateway \in GatewayOutcomes :
       Finish("void", transaction, gateway,
              voidTransaction([payment |-> payment, transaction |-> transaction],
                              gateway))

HandleTransactionSaleRequest ==
  /\ CanInvoke
  /\ \E gateway \in GatewayOutcomes :
       Finish("transactionSale", NoTransaction, gateway,
              handleTransactionSaleRequest(payment, gateway))

HandleGetClientTokenRequest ==
  /\ CanInvoke
  /\ \E gateway \in ClientTokenOutcomes :
       Finish("getClientToken", NoTransaction, gateway,
              handleGetClientTokenRequest(payment, gateway))

\* the platform applies the returned update actions to the payment
Apply ==
  /\ pc = "returned"
  /\ payment' = ApplyActions(payment, last.result.actions)
  /\ handled' = IF last.result.actions # << >> THEN handled \cup {last.op} ELSE handled
  /\ pc' = "idle"
  /\ last' = NoInvocation
  /\ UNCHANGED <<customer, gatewayLog>>

\* the handler threw: the platform rejects the update and changes nothing
Reject ==
  /\ pc = "threw"
  /\ pc' = "idle"
  /\ last' = NoInvocation
  /\ UNCHANGED <<payment, customer, gatewayLog, handled>>

Next ==
  \/ Refund
  \/ SubmitForSettlement
  \/ VoidTransaction
  \/ HandleTransactionSaleRequest
  \/ HandleGetClientTokenRequest
  \/ Apply
  \/ Reject

Spec == Init /\ [][Next]_vars

(***************************************************************************)
(* Properties of the payment handlers.                                     *)
(***************************************************************************)
PaymentOperations ==
  {"refund", "submitForSettlement", "void", "transactionSale", "getClientToken"}
TransactionOperations == {"refund", "submitForSettlement", "void"}
ThrowingOperations == TransactionOperations \cup {"transactionSale"}
SetFieldKinds == {"setCustomField", "setTransactionCustomField"}

\* the gateway function that belongs to an operation
GatewayFunctionOf(op) == IF op = "void" THEN "voidTransaction" ELSE op

\* the last invocation was a payment operation whose own request field was populated
Populated ==
  /\ last.op \in PaymentOperations
  /\ Truthy(last.payment.custom[last.op \o "Request"])

\* the last invocation called the gateway and the call threw / succeeded
GatewayThrew == last.op \in PaymentOperations /\ last.result.calls # << >> /\ ~last.gateway.ok
GatewaySucceeded == last.op \in PaymentOperations /\ last.result.calls # << >> /\ last.gateway.ok

\* the list holds an action that sets custom field name to value
SetsField(actions, name, value) ==
  \E i \in DOMAIN actions :
    /\ actions[i].action \in SetFieldKinds
    /\ actions[i].name = name
    /\ actions[i].value = value

\* C1: whenever a payment operation's own request field is populated, the
\* operation returns a list holding an action that sets that request field to
\* null, whatever the payload is and whether the gateway succeeds or throws.
C1_RequestFieldCleared ==
  Populated =>
    /\ ~last.result.threw
    /\ SetsField(last.result.actions, last.op \o "Request", Null)

\* C2: when the gateway call of refund, submitForSettlement, voidTransaction or
\* handleTransactionSaleRequest throws, the operation returns exactly two
\* actions: the response field set to the JSON of {success: false, message},
\* with message the Error's message or 'Unknown error', then the request field
\* set to null.
C2_GatewayErrorPair ==
  (GatewayThrew /\ last.op \in ThrowingOperations) =>
    LET a == last.result.actions
        message == IF last.gateway.error.isError
                   THEN last.gateway.error.message ELSE "Unknown error"
    IN /\ ~last.result.threw
       /\ Len(a) = 2
       /\ a[1].action \in SetFieldKinds
       /\ a[1].name = last.op \o "Response"
       /\ a[1].value = JSONStringify([success |-> FALSE, message |-> message])
       /\ a[2].action \in SetFieldKinds
       /\ a[2].name = last.op \o "Request"
       /\ a[2].value = Null

\* the gateway call of a sale threw an Error and the error pair was returned
C2_Witness ==
  /\ GatewayThrew
  /\ last.op = "transactionSale"
  /\ last.gateway.error.isError
  /\ Len(last.result.actions) = 2

\* C3: once the platform has applied the non-empty result of refund,
\* submitForSettlement or voidTransaction, invoking the same operation again
\* returns an empty list and calls no gateway function, so that no gateway
\* function of these operations is called twice.
C3_ReinvocationIsEmpty ==
  /\ (last.op \in TransactionOperations /\ last.op \in handled) =>
       (last.result.actions = << >> /\ last.result.calls = << >>)
  /\ \A op \in TransactionOperations :
       Cardinality({i \in DOMAIN gatewayLog :
                      gatewayLog[i].fn = GatewayFunctionOf(op)}) <= 1

\* C4: an operation whose own request field on the payment is absent or empty
\* returns an empty list and calls no gateway function; one whose field is
\* populated calls at most one gateway function, the one that belongs to it.
C4_BranchesOnOwnField ==
  last.op \in PaymentOperations =>
    IF Populated
    THEN /\ Len(last.result.calls) <= 1
         /\ \A i \in DOMAIN last.result.calls :
              last.result.calls[i].fn = GatewayFunctionOf(last.op)
    ELSE /\ ~last.result.threw
         /\ last.result.actions = << >>
         /\ last.result.calls = << >>

\* refund invoked on a payment without refundRequest, beside a transaction
\* whose custom fields carry refundRequest
C4_Witness ==
  /\ last.op = "refund"
  /\ ~Populated
  /\ last.transaction.present
  /\ Truthy(Get(last.transaction.custom, "refundRequest"))
  /\ last.result.calls = << >>

\* the request payload of the last invocation's own request field
LastPayload == last.payment.custom[last.op \o "Request"]

\* the two actions an error yields, with the given message
IsErrorPair(actions, op, message) ==
  /\ Len(actions) = 2
  /\ actions[1].action \in SetFieldKinds
  /\ actions[1].name = op \o "Response"
  /\ actions[1].value = JSONStringify([success |-> FALSE, message |-> message])
  /\ actions[2].action \in SetFieldKinds
  /\ actions[2].name = op \o "Request"
  /\ actions[2].value = Null

\* exactly one gateway call was made, with this transaction id
CalledWithTransactionId(id) ==
  /\ Len(last.result.calls) = 1
  /\ last.result.calls[1].transactionId = id

\* C5: in refund, submitForSettlement and voidTransaction the gateway is called
\* with the transactionId the parsed request supplies; otherwise with the
\* interactionId of the transaction passed beside the payment; otherwise with
\* the interactionId of the last transaction of the payment that has the
\* operation's type ('Charge' for refund, 'Authorization' otherwise); and when
\* there is none, the gateway is not called and the error pair with message
\* 'The payment has no suitable transaction' is returned.
C5_TransactionIdDerivation ==
  (Populated /\ last.op \in TransactionOperations) =>
    LET parsed == JSONParse(LastPayload)
        supplied == IF parsed.ok THEN Get(parsed.o, "transactionId") ELSE LastPayload
        type == IF last.op = "refund" THEN "Charge" ELSE "Authorization"
        all == last.payment.transactions
        ofType == {i \in DOMAIN all : all[i].type = type}
        lastOfType == CHOOSE i \in ofType : \A j \in ofType : j <= i
    IN IF supplied \notin {Undefined, Null}
       THEN CalledWithTransactionId(supplied)
       ELSE IF last.transaction.present
       THEN CalledWithTransactionId(last.transaction.interactionId)
       ELSE IF ofType # {}
       THEN CalledWithTransactionId(all[lastOfType].interactionId)
       ELSE /\ last.result.calls = << >>
            /\ IsErrorPair(last.result.actions, last.op,
                           "The payment has no suitable transaction")

\* C6: in refund, submitForSettlement and voidTransaction every non-empty
\* request value that is not a JSON object, also one that parses as another
\* JSON value, is the transaction id the gateway is called with; in
\* handleTransactionSaleRequest it is sent as paymentMethodNonce.
C6_PlainStringVerbatim ==
  LET parsed == JSONParse(LastPayload)
  IN (Populated /\ ~(parsed.ok /\ parsed.t = "object")) =>
       IF last.op \in TransactionOperations
       THEN CalledWithTransactionId(LastPayload)
       ELSE IF last.op = "transactionSale" /\ last.payment.amountPlanned.present
       THEN /\ Len(last.result.calls) = 1
            /\ Get(last.result.calls[1].request, "paymentMethodNonce") = LastPayload
       ELSE TRUE

\* C8: on success of refund, submitForSettlement, voidTransaction or
\* handleTransactionSaleRequest the returned list is, in this order: the
\* request interaction, the response field, the response interaction, the
\* request field set to null, one addTransaction, for the sale an optional
\* setInterfaceId, then setStatusInterfaceCode, setStatusInterfaceText and
\* setMethodInfoMethod.  The added transaction has type 'Refund' for refund,
\* 'Charge' for submitForSettlement and 'CancelAuthorization' for void, and its
\* interactionId is the gateway response's id.
C8_SuccessOrder ==
  (GatewaySucceeded /\ last.op \in ThrowingOperations) =>
    LET a == last.result.actions
        op == last.op
        n == Len(a)
        withInterfaceId == n = 9
    IN /\ ~last.result.threw
       /\ n \in {8, 9}
       /\ a[1].action = "addInterfaceInteraction" /\ a[1].type = op \o "Request"
       /\ a[2].action \in SetFieldKinds /\ a[2].name = op \o "Response"
       /\ a[2].value # Null
       /\ a[3].action = "addInterfaceInteraction" /\ a[3].type = op \o "Response"
       /\ a[4].action \in SetFieldKinds /\ a[4].name = op \o "Request"
       /\ a[4].value = Null
       /\ a[5].action = "addTransaction"
       /\ a[5].transaction.interactionId = last.gateway.response.id
       /\ op = "refund" => a[5].transaction.type = "Refund"
       /\ op = "submitForSettlement" => a[5].transaction.type = "Charge"
       /\ op = "void" => a[5].transaction.type = "CancelAuthorization"
       /\ Cardinality({i \in 1..n : a[i].action = "addTransaction"}) = 1
       /\ withInterfaceId => (op = "transactionSale" /\ a[6].action = "setInterfaceId")
       /\ a[n - 2].action = "setStatusInterfaceCode"
       /\ a[n - 1].action = "setStatusInterfaceText"
       /\ a[n].action = "setMethodInfoMethod"

\* a sale succeeded on a payment without interfaceId: nine actions
C8_Witness ==
  /\ GatewaySucceeded
  /\ last.op = "transactionSale"
  /\ Len(last.result.actions) = 9

\* C9: in every list refund, submitForSettlement or voidTransaction returns,
\* each action that sets a custom field is 'setTransactionCustomField' with the
\* id of the transaction passed beside the payment when that transaction has
\* an id, and 'setCustomField' without transactionId otherwise; its
\* transactionId is never the gateway's transaction id nor an interactionId.
C9_FieldActionScope ==
  last.op \in TransactionOperations =>
    \A i \in DOMAIN last.result.actions :
      LET a == last.result.actions[i]
          id == IF last.transaction.present THEN last.transaction.id ELSE Undefined
      IN a.action \in SetFieldKinds =>
           /\ IF Truthy(id)
              THEN a.action = "setTransactionCustomField" /\ a.transactionId = id
              ELSE a.action = "setCustomField" /\ a.transactionId = Undefined
           /\ a.transactionId \notin
                {r.id : r \in GatewayResponses}
                \cup {last.payment.transactions[j].interactionId :
                        j \in DOMAIN last.payment.transactions}
                \cup (IF last.transaction.present
                      THEN {last.transaction.interactionId} ELSE {})
                \cup {c.transactionId : c \in {last.result.calls[j] :
                                                j \in DOMAIN last.result.calls}}

\* a refund succeeded beside a transaction that has an id
C9_Witness ==
  /\ GatewaySucceeded
  /\ last.op = "refund"
  /\ last.transaction.present
  /\ Truthy(last.transaction.id)
  /\ Len(last.result.actions) = 8

\* the positions of the setInterfaceId actions in the last result
InterfaceIdActions ==
  {i \in DOMAIN last.result.actions : last.result.actions[i].action = "setInterfaceId"}

\* C11: handleTransactionSaleRequest returns a setInterfaceId action, one, with
\* the gateway response's id, if and only if the sale succeeded and the
\* payment had no interfaceId; on failure, or when the payment has an
\* interfaceId, the list holds no setInterfaceId action.
C11_InterfaceIdSetOnce ==
  last.op = "transactionSale" =>
    IF GatewaySucceeded /\ ~Truthy(last.payment.interfaceId)
    THEN /\ Cardinality(InterfaceIdActions) = 1
         /\ \A i \in InterfaceIdActions :
              last.result.actions[i].interfaceId = last.gateway.response.id
    ELSE InterfaceIdActions = {}

\* a sale succeeded on a payment that has an interfaceId already
C11_Witness ==
  /\ GatewaySucceeded
  /\ last.op = "transactionSale"
  /\ Truthy(last.payment.interfaceId)
  /\ InterfaceIdActions = {}
  /\ last.result.actions # << >>

(***************************************************************************)
(* The customer update handler as a state machine.                         *)
(***************************************************************************)
InitialCustomers ==
  [id : {"cu1"},
   custom : [findRequest : {Undefined, PObjNonce, PPlain, PNull},
             createRequest : {Undefined, PObjAmount, PPlain},
             vaultRequest : {Undefined, PObjNonce, PPlain, PDigits, PNull},
             customerId : {Undefined, "c1"}]]

DefaultPayment ==
  [custom |-> NoFields, transactions |-> << >>, interfaceId |-> Undefined,
   amountPlanned |-> AmountPlanned]

CustomerInit ==
  /\ customer \in InitialCustomers
  /\ payment = DefaultPayment
  /\ pc = "idle"
  /\ last = NoInvocation
  /\ gatewayLog = << >>
  /\ handled = {}

\* what the steps of one update draw from the gateway and the mapping
Environments(cust) ==
  [find : IF Truthy(cust.custom["findRequest"])
          THEN CustomerGatewayOutcomes ELSE {Unused},
   createMap : IF Truthy(cust.custom["createRequest"]) THEN MapOutcomes ELSE {"unused"},
   create : IF Truthy(cust.custom["createRequest"])
            THEN CustomerGatewayOutcomes ELSE {Unused},
   vaultMap : IF Truthy(cust.custom["vaultRequest"]) /\ ~Truthy(cust.custom["customerId"])
              THEN MapOutcomes ELSE {"unused"},
   vault : IF Truthy(cust.custom["vaultRequest"])
           THEN CustomerGatewayOutcomes ELSE {Unused}]

Update ==
  /\ CanInvoke
  /\ \E hasObj \in BOOLEAN, env \in Environments(customer) :
       LET result == update(hasObj, customer, env)
       IN /\ last' = [op |-> "update", hasObj |-> hasObj, customer |-> customer,
                      env |-> env, result |-> result]
          /\ pc' = IF result.threw THEN "threw" ELSE "returned"
          /\ gatewayLog' = gatewayLog \o result.calls
          /\ UNCHANGED <<payment, customer, handled>>

\* the platform applies the returned setCustomField actions to the customer
RECURSIVE ApplyCustomerActions(_, _)
ApplyCustomerActions(cust, actions) ==
  IF actions = << >> THEN cust
  ELSE ApplyCustomerActions(
         IF Head(actions).action = "setCustomField"
         THEN [cust EXCEPT !.custom = SetCustom(@, Head(actions).name, Head(actions).value)]
         ELSE cust,
         Tail(actions))

ApplyCustomer ==
  /\ pc = "returned"
  /\ customer' = ApplyCustomerActions(customer, last.result.actions)
  /\ handled' = IF last.result.actions # << >> THEN handled \cup {last.op} ELSE handled
  /\ pc' = "idle"
  /\ last' = NoInvocation
  /\ UNCHANGED <<payment, gatewayLog>>

CustomerNext ==
  \/ Update
  \/ ApplyCustomer
  \/ Reject

CustomerSpec == CustomerInit /\ [][CustomerNext]_vars

(***************************************************************************)
(* Properties of the customer update handler.                              *)
(***************************************************************************)
CustomerOperations == <<"find", "create", "vault">>

\* the last invocation was update on a resource that carries the customer
Updated == last.op = "update" /\ last.hasObj

\* the list holds an action that sets custom field name to a value
SetsResponse(actions, name) ==
  \E i \in DOMAIN actions :
    /\ actions[i].action \in SetFieldKinds
    /\ actions[i].name = name
    /\ actions[i].value # Null

\* C7: update handles findRequest, createRequest and vaultRequest in this
\* order, and for each of them that is populated the returned list holds its
\* response field and clears its request field, whatever the outcome of the
\* other two; a malformed findRequest yields a response, not a thrown error.
C7_EveryOutcomeReturned ==
  Updated =>
    /\ \A k \in DOMAIN CustomerOperations :
         Truthy(last.customer.custom[CustomerOperations[k] \o "Request"]) =>
           /\ ~last.result.threw
           /\ SetsResponse(last.result.actions, CustomerOperations[k] \o "Response")
           /\ SetsField(last.result.actions, CustomerOperations[k] \o "Request", Null)
    /\ \A k, m \in DOMAIN CustomerOperations :
         \A i, j \in DOMAIN last.result.actions :
           (/\ k < m
            /\ last.result.actions[i].name = CustomerOperations[k] \o "Request"
            /\ last.result.actions[j].name = CustomerOperations[m] \o "Response") => i < j

\* the gateway calls the vault step of the last update made
VaultCalls == SelectSeq(last.result.calls, LAMBDA c : c.step = "vault")

\* the vault payload is a JSON object or is not valid JSON, and the customer
\* mapping did not throw
VaultRequestWellFormed ==
  LET parsed == JSONParse(last.customer.custom["vaultRequest"])
  IN /\ Truthy(last.customer.custom["vaultRequest"])
     /\ ~parsed.ok \/ parsed.t = "object"
     /\ last.env.vaultMap # "throws"

\* C10: when vaultRequest is populated, update calls exactly one gateway
\* function for it: createPaymentMethod, with customerId the customer's custom
\* field and options.failOnDuplicatePaymentMethod true, when that custom field
\* is set, and createCustomer when it is not; a payload that is not valid JSON
\* is the paymentMethodNonce of the request.
C10_VaultRouting ==
  (Updated /\ VaultRequestWellFormed) =>
    LET customerId == last.customer.custom["customerId"]
        vaultRequest == last.customer.custom["vaultRequest"]
        isJSON == JSONParse(vaultRequest).ok
    IN /\ Len(VaultCalls) = 1
       /\ IF Truthy(customerId)
          THEN /\ VaultCalls[1].fn = "createPaymentMethod"
               /\ VaultCalls[1].request.customerId = customerId
               /\ VaultCalls[1].request.options.failOnDuplicatePaymentMethod
               /\ ~isJSON => VaultCalls[1].request.paymentMethodNonce = vaultRequest
          ELSE /\ VaultCalls[1].fn = "createCustomer"
               /\ ~isJSON => VaultCalls[1].request.from =
                               JSONStringify([paymentMethodNonce |-> vaultRequest])

====
